---- MODULE Spec2Model ----
(***************************************************************************)
(* Stone-Soup GM-PHD core: the distance hypothesiser, the Gaussian-mixture *)
(* hypothesiser, the Gaussian-mixture updater and the GM-PHD tracker loop. *)
(*                                                                         *)
(* Abstractions.  A state vector is a cell of a one-dimensional grid       *)
(* (Positions).  A weight is an exact rational <<n, d>>; <<0, 0>> is the   *)
(* not-a-number that 0.0 / 0.0 yields.  Timestamps are left out.  An       *)
(* object is identified by its place in the list that holds it.            *)
(***************************************************************************)
EXTENDS Integers, Sequences, FiniteSets, TLC

\* ------------------------------------------------------------------ bounds
MaxPos == 1
MaxComp == 2
MaxDets == 2
MaxSteps == 2
\* a run is followed while the weights stay within this many parts of a unit
MaxDenominator == 60

\* float('inf'), the default missed_distance: larger than every distance
Infinity == 1000

Positions == 0..MaxPos

\* ------------------------------------------------------- exact arithmetic
RECURSIVE GCD(_, _)
GCD(a, b) == IF b = 0 THEN a ELSE GCD(b, a % b)

NaN == <<0, 0>>
IsNaN(x) == x[2] = 0
Norm(x) ==
    IF x[2] = 0 THEN NaN
    ELSE IF x[1] = 0 THEN <<0, 1>>
    ELSE LET g == GCD(x[1], x[2]) IN <<x[1] \div g, x[2] \div g>>
RAdd(x, y) ==
    IF IsNaN(x) \/ IsNaN(y) THEN NaN
    ELSE LET g == GCD(x[2], y[2])
         IN Norm(<<x[1] * (y[2] \div g) + y[1] * (x[2] \div g), (x[2] \div g) * y[2]>>)
RSub(x, y) ==
    IF IsNaN(x) \/ IsNaN(y) THEN NaN
    ELSE LET g == GCD(x[2], y[2])
         IN Norm(<<x[1] * (y[2] \div g) - y[1] * (x[2] \div g), (x[2] \div g) * y[2]>>)
RMul(x, y) ==
    IF IsNaN(x) \/ IsNaN(y) THEN NaN
    ELSE IF x[1] = 0 \/ y[1] = 0 THEN <<0, 1>>
    ELSE LET g == GCD(x[1], y[2])
             h == GCD(y[1], x[2])
         IN <<(x[1] \div g) * (y[1] \div h), (x[2] \div h) * (y[2] \div g)>>
\* x / y on non-negative floats; 0.0 / 0.0 is nan
RDiv(x, y) ==
    IF IsNaN(x) \/ IsNaN(y) \/ y[1] = 0 THEN NaN ELSE RMul(x, <<y[2], y[1]>>)
\* comparisons with nan are false
RLt(x, y) ==
    /\ ~IsNaN(x) /\ ~IsNaN(y)
    /\ LET g == GCD(x[2], y[2]) IN x[1] * (y[2] \div g) < y[1] * (x[2] \div g)
RLe(x, y) ==
    /\ ~IsNaN(x) /\ ~IsNaN(y)
    /\ LET g == GCD(x[2], y[2]) IN x[1] * (y[2] \div g) <= y[1] * (x[2] \div g)
Zero == <<0, 1>>
One == <<1, 1>>

RECURSIVE RSum(_)
RSum(s) == IF s = <<>> THEN Zero ELSE RAdd(RSum(SubSeq(s, 1, Len(s) - 1)), s[Len(s)])

RECURSIVE Flatten(_)
Flatten(ss) == IF ss = <<>> THEN <<>>
               ELSE Flatten(SubSeq(ss, 1, Len(ss) - 1)) \o ss[Len(ss)]

SeqsUpTo(S, n) == UNION {[1..k -> S] : k \in 0..n}

\* ------------------------------------------------------------------- state
VARIABLES
    missed_distance,          \* DistanceHypothesiser.missed_distance
    include_all,              \* DistanceHypothesiser.include_all
    order_by_detection,       \* GaussianMixtureHypothesiser.order_by_detection
    prob_survival,            \* GaussianMixtureHypothesiser.prob_survival
    prob_of_detection,        \* GaussianMixtureUpdater.prob_of_detection
    clutter_spatial_density,  \* GaussianMixtureUpdater.clutter_spatial_density
    hyp_mul,                  \* what `hypothesis * float' does: "weight" or "TypeError"
    extraction_threshold,     \* gaussian_mixture.estimation_threshold
    birth_component,          \* the tracker's birth template
    mixture,                  \* gaussian_mixture.components
    detections,               \* the detections of the current call / step
    hypotheses,               \* what hypothesise returned
    detector,                 \* pairs the detection source still holds
    next_tag,                 \* number of uuid4() tags drawn so far
    minted,                   \* the tags uuid4() has returned so far
    steps,                    \* tuples the tracker loop has yielded
    tracks,                   \* the track dictionary, in insertion order
    time,                     \* the time of the pair pulled last
    yielded,                  \* the tuples yielded so far, in order
    before,                   \* the mixture and the template when the step began
    error,                    \* the exception that ended the run, or "none"
    pc                        \* position in the harness / the tracker loop

cfg == <<missed_distance, include_all, order_by_detection, prob_survival,
         prob_of_detection, clutter_spatial_density, hyp_mul,
         extraction_threshold>>
vars == <<missed_distance, include_all, order_by_detection, prob_survival,
          prob_of_detection, clutter_spatial_density, hyp_mul,
          extraction_threshold, birth_component, mixture, detections,
          hypotheses, detector, next_tag, minted, steps, tracks, time, yielded,
          before, error, pc>>

\* --------------------------------------------------------------- the types
BirthTag == 0

Component(tag, weight, mean) == [tag |-> tag, weight |-> weight, mean |-> mean]

Detection(id, z) == [kind |-> "detection", id |-> id, state_vector |-> z]
MissedDetection == [kind |-> "missed", id |-> 0, state_vector |-> 0]
IsMissedDetection(m) == m.kind = "missed"

\* a list of distinct Detection objects with the given state vectors
DetectionList(zs) == [j \in 1..Len(zs) |-> Detection(j, zs[j])]

\* predictor.predict(track.state, timestamp): weight, tag and mean carried over;
\* `of' records the component the prediction was made from
Predict(i, component) ==
    [of |-> i, tag |-> component.tag, weight |-> component.weight,
     mean |-> component.mean]

\* updater.predict_measurement(prediction [, measurement_model])
PredictMeasurement(prediction) == [mean |-> prediction.mean]

\* measure(measurement_prediction, detection): non-negative, 0 at the mean
Measure(measurement_prediction, detection) ==
    IF measurement_prediction.mean >= detection.state_vector
    THEN measurement_prediction.mean - detection.state_vector
    ELSE detection.state_vector - measurement_prediction.mean

SingleDistanceHypothesis(prediction, measurement, distance, measurement_prediction) ==
    [prediction |-> prediction, measurement |-> measurement,
     distance |-> distance, measurement_prediction |-> measurement_prediction]

\* SingleDistanceHypothesis.__lt__: orderable by distance
HypLt(a, b) == a.distance < b.distance

\* ------------------------------------------------- DistanceHypothesiser
\* sorted(hypotheses, reverse=True): stable, greatest first
InsertReverse(sorted, h) ==
    LET k == Cardinality({i \in 1..Len(sorted) : ~HypLt(sorted[i], h)})
    IN SubSeq(sorted, 1, k) \o <<h>> \o SubSeq(sorted, k + 1, Len(sorted))

RECURSIVE SortedReverse(_)
SortedReverse(s) ==
    IF s = <<>> THEN <<>>
    ELSE InsertReverse(SortedReverse(SubSeq(s, 1, Len(s) - 1)), s[Len(s)])

\* the gate of one detection
AdmitsLe(distance) == include_all \/ distance <= missed_distance
Admits(distance) == include_all \/ distance < missed_distance

TrueDetectionHypotheses(i, track, dets) ==
    LET prediction == Predict(i, track)
        measurement_prediction == PredictMeasurement(prediction)
        one(j) ==
            LET distance == Measure(measurement_prediction, dets[j])
            IN IF Admits(distance)
               THEN <<SingleDistanceHypothesis(prediction, dets[j], distance,
                                               measurement_prediction)>>
               ELSE <<>>
    IN Flatten([j \in 1..Len(dets) |-> one(j)])

\* DistanceHypothesiser.hypothesise(track, detections, timestamp); i is the
\* place of `track' in the caller's list
DistanceHypothesise(i, track, dets) ==
    LET prediction == Predict(i, track)
        measurement_prediction == PredictMeasurement(prediction)
        missed == SingleDistanceHypothesis(prediction, MissedDetection,
                                           missed_distance, measurement_prediction)
    IN SortedReverse(<<missed>> \o TrueDetectionHypotheses(i, track, dets))

\* ------------------------------------------ GaussianMixtureHypothesiser
\* component.weight *= self.prob_survival, in place, for every component
Thinned(predict_state) ==
    [i \in 1..Len(predict_state) |->
        [predict_state[i] EXCEPT !.weight = RMul(@, prob_survival)]]

ByComponent(predict_state, dets) ==
    LET thinned == Thinned(predict_state)
        all == [i \in 1..Len(thinned) |-> DistanceHypothesise(i, thinned[i], dets)]
    IN SelectSeq(all, LAMBDA g : Len(g) > 0)

ReorderByValue(groups, dets) ==
    LET single_hypothesis_list == Flatten(groups)
        miss_detections_hypothesis ==
            SelectSeq(single_hypothesis_list,
                      LAMBDA h : IsMissedDetection(h.measurement))
        per_detection ==
            [j \in 1..Len(dets) |->
                SelectSeq(single_hypothesis_list,
                          LAMBDA h : /\ ~IsMissedDetection(h.measurement)
                                     /\ h.measurement.state_vector = dets[j].state_vector)]
    IN per_detection \o <<miss_detections_hypothesis>>

ReorderDropMissed(groups, dets) ==
    LET single_hypothesis_list == Flatten(groups)
    IN [j \in 1..Len(dets) |->
          SelectSeq(single_hypothesis_list, LAMBDA h : h.measurement = dets[j])]

Reorder(groups, dets) ==
    LET single_hypothesis_list == Flatten(groups)
        miss_detections_hypothesis ==
            SelectSeq(single_hypothesis_list,
                      LAMBDA h : IsMissedDetection(h.measurement))
        per_detection ==
            [j \in 1..Len(dets) |->
                SelectSeq(single_hypothesis_list, LAMBDA h : h.measurement = dets[j])]
    IN per_detection \o <<miss_detections_hypothesis>>

GMHypothesiseAlwaysReorder(predict_state, dets) ==
    Reorder(ByComponent(predict_state, dets), dets)

\* GaussianMixtureHypothesiser.hypothesise(predict_state, detections, timestamp)
GMHypothesise(predict_state, dets) ==
    LET groups == ByComponent(predict_state, dets)
    IN IF order_by_detection THEN Reorder(groups, dets) ELSE groups

\* ------------------------------------------------ GaussianMixtureUpdater
\* multivariate_normal.pdf(measurement.state_vector, mean, cov): the density
\* falls with the distance from the mean and underflows to 0.0 far from it
Pdf(h) ==
    LET d == Measure(h.measurement_prediction, h.measurement)
    IN IF d = 0 THEN One ELSE Zero

\* self.updater.update(hypothesis): the single-target Kalman posterior
KalmanUpdate(h) == [mean |-> h.measurement.state_vector]

\* uuid.uuid4(): the n-th identifier drawn differs from the earlier ones and from 0
FreshTag(drawn) == drawn + 1

UpdatedTagSharedDraw(prediction, drawn) ==
    IF prediction.tag = BirthTag THEN FreshTag(0) ELSE prediction.tag

\* tag=prediction.tag, then a new tag if spawned from the birth component
UpdatedTag(prediction, drawn) ==
    IF prediction.tag = BirthTag THEN FreshTag(drawn) ELSE prediction.tag

BirthCount(group) ==
    Cardinality({k \in 1..Len(group) : group[k].prediction.tag = BirthTag})

\* new_weight = self.prob_of_detection*prediction.weight*q
NewWeight(h) == RMul(RMul(prob_of_detection, h.prediction.weight), Pdf(h))

WeightSumNoClutter(group) == RSum([k \in 1..Len(group) |-> NewWeight(group[k])])

\* weight_sum = clutter_spatial_density, then += new_weight per hypothesis
WeightSum(group) ==
    RAdd(clutter_spatial_density, RSum([k \in 1..Len(group) |-> NewWeight(group[k])]))

\* one pass of the loop over measurements; `drawn' tags were drawn before it
UpdateGroup(group, drawn) ==
    [k \in 1..Len(group) |->
        Component(UpdatedTag(group[k].prediction,
                             drawn + BirthCount(SubSeq(group, 1, k - 1))),
                  RDiv(NewWeight(group[k]), WeightSum(group)),
                  KalmanUpdate(group[k]).mean)]

\* the loop over range(len(hypotheses)-1)
DetectionBranch(hyps, drawn) ==
    Flatten([i \in 1..(Len(hyps) - 1) |->
                UpdateGroup(hyps[i], drawn + BirthCount(Flatten(SubSeq(hyps, 1, i - 1))))])

\* weight=missed_detected_hypotheses*(1-self.prob_of_detection): the product of
\* a hypothesis and a number
MissedWeight(h) == RMul(h.prediction.weight, RSub(One, prob_of_detection))

\* The loop over hypotheses[-1].  `component' is the loop variable the loop
\* over measurements left behind (<<c>>, or <<>> while unbound), and then the
\* component this loop built last.
RECURSIVE MissedBranch(_, _, _)
MissedBranch(missed, component, out) ==
    IF missed = <<>> THEN [error |-> "none", components |-> out]
    ELSE IF component = <<>>
    THEN [error |-> "UnboundLocalError", components |-> out]
    ELSE IF component[1].tag # BirthTag
    THEN IF hyp_mul = "TypeError"
         THEN [error |-> "TypeError", components |-> out]
         ELSE LET h == Head(missed)
                  c == Component(h.prediction.tag, MissedWeight(h), h.prediction.mean)
              IN MissedBranch(Tail(missed), <<c>>, Append(out, c))
    ELSE MissedBranch(Tail(missed), component, out)

\* GaussianMixtureUpdater.update(hypotheses), `drawn' tags drawn before the call
Update(hyps, drawn) ==
    IF hyps = <<>> THEN [error |-> "IndexError", components |-> <<>>]
    ELSE LET updated == DetectionBranch(hyps, drawn)
             component == IF updated = <<>> THEN <<>> ELSE <<updated[Len(updated)]>>
         IN MissedBranch(hyps[Len(hyps)], component, updated)

\* ------------------------------------------------- GaussianMixtureReducer
PruneThreshold == <<1, 100>>

Prune(components) == SelectSeq(components, LAMBDA c : ~RLt(c.weight, PruneThreshold))

\* the place of the first component no other component outweighs
Heaviest(components) ==
    CHOOSE i \in 1..Len(components) :
        /\ \A j \in 1..Len(components) : ~RLt(components[i].weight, components[j].weight)
        /\ \A j \in 1..(i - 1) :
              \E l \in 1..Len(components) : RLt(components[j].weight, components[l].weight)

\* the merge gate: two components on the same cell are within merge_threshold
Near(a, b) == a.mean = b.mean

RECURSIVE Merge(_)
Merge(components) ==
    IF components = <<>> THEN <<>>
    ELSE LET best == components[Heaviest(components)]
             cluster == SelectSeq(components, LAMBDA c : Near(best, c))
             rest == SelectSeq(components, LAMBDA c : ~Near(best, c))
             merged == Component(best.tag,
                                 RSum([k \in 1..Len(cluster) |-> cluster[k].weight]),
                                 best.mean)
         IN <<merged>> \o Merge(rest)

\* GaussianMixtureReducer.reduce(components): prune, then merge
Reduce(components) == Merge(Prune(components))

\* ------------------------------------- GaussianMixtureMultiTargetTracker
\* str(component.tag): the tag is the int 0 or a UUID
Str(tag) == [kind |-> IF tag = BirthTag THEN "int" ELSE "uuid", text |-> tag]

\* the literal "1" of the sanity check
StrOne == [kind |-> "int", text |-> 1]

\* len(str(tag)): "0" has one character, the text of a UUID thirty-six
StrLen(key) == IF key.kind = "int" THEN 1 ELSE 36

\* Track(states, id=tag): a new track is active
Track(states, id) == [id |-> id, states |-> states, active |-> TRUE]

\* tag in self.tracks
HasKey(table, key) == \E n \in 1..Len(table) : table[n].key = key

\* the tracks of the dictionary with the given key (at most one)
TrackOf(table, key) == {table[n].track : n \in {m \in 1..Len(table) : table[m].key = key}}

\* the body of the loop of tracks_gen, with every existing track extended
TrackComponentExtendAll(table, component) ==
    IF table # <<>>
    THEN [n \in 1..Len(table) |->
            [table[n] EXCEPT !.track.states = Append(@, component)]]
    ELSE IF RLt(extraction_threshold, component.weight)
         THEN <<[key |-> Str(component.tag),
                 track |-> Track(<<component>>, Str(component.tag))]>>
         ELSE table

\* the body of the loop of tracks_gen: extend the track of the component's
\* tag, or create it if the component weighs more than the threshold
TrackComponent(table, component) ==
    LET tag == Str(component.tag)
    IN IF tag # StrOne
       THEN IF HasKey(table, tag)
            THEN [n \in 1..Len(table) |->
                    IF table[n].key = tag
                    THEN [table[n] EXCEPT !.track.states = Append(@, component)]
                    ELSE table[n]]
            ELSE IF RLt(extraction_threshold, component.weight)
                 THEN Append(table, [key |-> tag, track |-> Track(<<component>>, tag)])
                 ELSE table
       ELSE table

\* GaussianMixtureMultiTargetTracker.tracks_gen: every component of the
\* mixture, in order
RECURSIVE TracksGen(_, _)
TracksGen(table, components) ==
    IF components = <<>> THEN table
    ELSE TracksGen(TrackComponent(table, Head(components)), Tail(components))

\* `for tag, component in self.tracks': iterating a dict gives its keys, and a
\* key unpacks into two names only if it has two characters
Unpacks(key) == StrLen(key) = 2

\* GaussianMixtureMultiTargetTracker.end_tracks: the first key of the
\* dictionary fails to unpack, before any flag is touched
EndTracks(table, components) ==
    IF \E n \in 1..Len(table) : ~Unpacks(table[n].key)
    THEN [error |-> "ValueError", tracks |-> table]
    ELSE [error |-> "none", tracks |-> table]

\* the tracks property: the active tracks, read with the same `for key, track
\* in self.tracks'
ActiveTracks(table) ==
    IF \E n \in 1..Len(table) : ~Unpacks(table[n].key)
    THEN [error |-> "ValueError", tracks |-> {}]
    ELSE [error |-> "none",
          tracks |-> {table[n].track : n \in {m \in 1..Len(table) : table[m].track.active}}]

\* estimated_number_of_targets
EstimatedNumberOfTargets(components) ==
    IF components # <<>> THEN RSum([k \in 1..Len(components) |-> components[k].weight])
    ELSE Zero

\* ------------------------------------------------------ configurations
MissedDistances == {0, 1, Infinity}
Probabilities == {<<1, 2>>, One}
ClutterDensities == {Zero, One}

\* variables the hypothesiser harness does not use
TrackerIdle ==
    /\ prob_of_detection = One
    /\ clutter_spatial_density = Zero
    /\ hyp_mul = "weight"
    /\ birth_component = Component(BirthTag, Zero, 0)
    /\ detector = 0
    /\ next_tag = 0
    /\ minted = {}
    /\ steps = 0
    /\ extraction_threshold = Zero
    /\ tracks = <<>>
    /\ time = 0
    /\ yielded = <<>>
    /\ before = [mixture |-> <<>>, tracks |-> <<>>]
    /\ error = "none"

\* ------------------------------------------- the hypothesiser, called once
\* Any mixture of at most MaxComp components, any list of at most MaxDets
\* distinct detections, any configuration of the two hypothesisers.
InitHyp ==
    /\ missed_distance \in MissedDistances
    /\ include_all \in BOOLEAN
    /\ order_by_detection \in BOOLEAN
    /\ prob_survival \in Probabilities
    /\ \E ms \in SeqsUpTo(Positions, MaxComp) :
          mixture = [i \in 1..Len(ms) |-> Component(i, <<1, 2>>, ms[i])]
    /\ \E zs \in SeqsUpTo(Positions, MaxDets) : detections = DetectionList(zs)
    /\ hypotheses = <<>>
    /\ pc = "call"
    /\ TrackerIdle

\* hypotheses = hypothesiser.hypothesise(mixture, detections, timestamp)
CallHypothesise ==
    /\ pc = "call"
    /\ hypotheses' = GMHypothesise(mixture, detections)
    /\ mixture' = Thinned(mixture)
    /\ pc' = "returned"
    /\ UNCHANGED <<cfg, birth_component, detections, detector, next_tag, minted,
                   steps, tracks, time, yielded, before, error>>

NextHyp == CallHypothesise

SpecHyp == InitHyp /\ [][NextHyp]_vars

\* --------------------------------------------- claims on the hypothesisers
\* the pair (component i, detection j) passes the gate
Admitted(i, j) ==
    LET m == mixture[i].mean
        z == detections[j].state_vector
        d == IF m >= z THEN m - z ELSE z - m
    IN include_all \/ d < missed_distance

CountIn(group, P(_)) == Cardinality({k \in 1..Len(group) : P(group[k])})

NothingGated ==
    \A i \in 1..Len(mixture) : \A j \in 1..Len(detections) : Admitted(i, j)

GatedPairs ==
    {p \in (1..Len(mixture)) \X (1..Len(detections)) : ~Admitted(p[1], p[2])}

TotalHypotheses == Len(Flatten(hypotheses))

C3_ByComponentLayout ==
    (pc = "returned" /\ ~order_by_detection) =>
        /\ Len(hypotheses) = Len(mixture)
        /\ \A i \in 1..Len(hypotheses) : \A k \in 1..Len(hypotheses[i]) :
              LET p == hypotheses[i][k].prediction
              IN /\ p.of = i
                 /\ p.tag = mixture[i].tag
                 /\ p.mean = mixture[i].mean
                 /\ p.weight = mixture[i].weight

C3_Witness ==
    /\ pc = "returned" /\ ~order_by_detection
    /\ Len(mixture) = 2 /\ Len(detections) = 2
    /\ mixture[1].mean # mixture[2].mean
    /\ Len(hypotheses[1]) = 3 /\ prob_survival # One

C5_MissedAtHead ==
    (pc = "returned" /\ ~order_by_detection) =>
        \A i \in 1..Len(hypotheses) :
           /\ \A k \in 1..(Len(hypotheses[i]) - 1) :
                 hypotheses[i][k].distance >= hypotheses[i][k + 1].distance
           /\ IsMissedDetection(hypotheses[i][1].measurement)

\* ------------------------------------------------- the GM-PHD tracker loop
BirthWeights == {<<1, 2>>}

\* non-decreasing lists of cells: the detection sets of one step, up to the
\* order in which a set is iterated
StepCells ==
    {zs \in SeqsUpTo(Positions, MaxDets) : \A k \in 1..(Len(zs) - 1) : zs[k] <= zs[k + 1]}

Init ==
    /\ missed_distance \in {1, Infinity}
    /\ include_all = FALSE
    /\ order_by_detection = TRUE
    /\ prob_survival \in Probabilities
    /\ prob_of_detection \in Probabilities
    /\ clutter_spatial_density \in ClutterDensities
    /\ hyp_mul \in {"weight", "TypeError"}
    /\ \E w \in BirthWeights : birth_component = Component(BirthTag, w, 0)
    /\ mixture = <<>>
    /\ detections = <<>>
    /\ hypotheses = <<>>
    /\ detector = MaxSteps
    /\ next_tag = 0
    /\ minted = {}
    /\ steps = 0
    /\ extraction_threshold = Zero
    /\ tracks = <<>>
    /\ time = 0
    /\ yielded = <<>>
    /\ before = [mixture |-> <<>>, tracks |-> <<>>]
    /\ error = "none"
    /\ pc = "pull"

\* for time, detections in self.detector: the next pair, and the birth
\* component appended to the mixture
Representable(components) ==
    \A k \in 1..Len(components) : components[k].weight[2] <= MaxDenominator

Pull ==
    /\ pc = "pull" /\ detector > 0
    /\ Representable(mixture)
    /\ \E zs \in StepCells : detections' = DetectionList(zs)
    /\ detector' = detector - 1
    /\ time' = time + 1
    /\ before' = [mixture |-> mixture, tracks |-> tracks]
    /\ mixture' = Append(mixture, birth_component)
    /\ pc' = "hypothesise"
    /\ UNCHANGED <<cfg, birth_component, hypotheses, next_tag, minted, steps, tracks,
                   yielded, error>>

\* the detection source is exhausted: the loop ends
Exhausted ==
    /\ pc = "pull" /\ detector = 0
    /\ pc' = "done"
    /\ UNCHANGED <<cfg, birth_component, mixture, detections, hypotheses, detector,
                   next_tag, minted, steps, tracks, time, yielded, before, error>>

\* hypotheses = self.hypothesiser.hypothesise(components, detections, time);
\* the thinning is done in place, and the last component is the birth template
\* itself
Hypothesise ==
    /\ pc = "hypothesise"
    /\ hypotheses' = GMHypothesise(mixture, detections)
    /\ mixture' = Thinned(mixture)
    /\ birth_component' = [birth_component EXCEPT !.weight = RMul(@, prob_survival)]
    /\ pc' = "update"
    /\ UNCHANGED <<cfg, detections, detector, next_tag, minted, steps, tracks, time,
                   yielded, before, error>>

\* self.gaussian_mixture.components = self.updater.update(hypotheses)
UpdateStep ==
    /\ pc = "update"
    /\ LET result == Update(hypotheses, next_tag)
           drawn == BirthCount(Flatten(SubSeq(hypotheses, 1, Len(hypotheses) - 1)))
       IN /\ next_tag' = next_tag + drawn
          /\ minted' = minted \cup {FreshTag(n) : n \in next_tag..(next_tag + drawn - 1)}
          /\ IF result.error = "none"
             THEN /\ mixture' = result.components
                  /\ pc' = "reduce"
                  /\ error' = error
             ELSE /\ mixture' = mixture
                  /\ pc' = "failed"
                  /\ error' = result.error
    /\ UNCHANGED <<cfg, birth_component, detections, hypotheses, detector, steps,
                   tracks, time, yielded, before>>

\* self.gaussian_mixture.components = self.reducer.reduce(components)
ReduceStep ==
    /\ pc = "reduce"
    /\ mixture' = Reduce(mixture)
    /\ pc' = "yield"
    /\ UNCHANGED <<cfg, birth_component, detections, hypotheses, detector, next_tag,
                   minted, steps, tracks, time, yielded, before, error>>

\* tracks = self.tracks(); yield time, tracks, self.estimated_number_of_targets
Yield ==
    /\ pc = "yield"
    /\ LET active == ActiveTracks(tracks)
       IN IF active.error = "none"
          THEN /\ yielded' = Append(yielded,
                                    [time |-> time, tracks |-> active.tracks,
                                     estimated_number_of_targets |->
                                         EstimatedNumberOfTargets(mixture)])
               /\ steps' = steps + 1
               /\ detections' = <<>>
               /\ hypotheses' = <<>>
               /\ pc' = "pull"
               /\ error' = error
          ELSE /\ pc' = "failed"
               /\ error' = active.error
               /\ UNCHANGED <<yielded, steps, detections, hypotheses>>
    /\ UNCHANGED <<cfg, birth_component, mixture, detector, next_tag, minted, tracks,
                   time, before>>

Next == Pull \/ Exhausted \/ Hypothesise \/ UpdateStep \/ ReduceStep \/ Yield

Spec == Init /\ [][Next]_vars

\* --------------------------------- track maintenance, called by a driver
\* The GM-PHD loop above never calls tracks_gen of its base class nor
\* end_tracks; here a driver assigns a mixture and calls them, twice.
TrackTags == {BirthTag, FreshTag(0), FreshTag(1)}
TrackWeights == {<<1, 2>>, One}
ExtractionThresholds == {Zero, <<1, 2>>}
TrackRounds == <<"first", "second">>

TrackMixtures ==
    {[i \in 1..Len(ts) |-> Component(ts[i][1], ts[i][2], 0)] :
        ts \in SeqsUpTo(TrackTags \X TrackWeights, MaxComp)}

InitTracks ==
    /\ missed_distance = Infinity
    /\ include_all = FALSE
    /\ order_by_detection = TRUE
    /\ prob_survival = One
    /\ prob_of_detection = One
    /\ clutter_spatial_density = Zero
    /\ hyp_mul = "weight"
    /\ extraction_threshold \in ExtractionThresholds
    /\ birth_component = Component(BirthTag, Zero, 0)
    /\ mixture = <<>>
    /\ detections = <<>>
    /\ hypotheses = <<>>
    /\ detector = 0
    /\ next_tag = 0
    /\ minted = {}
    /\ steps = 0
    /\ tracks = <<>>
    /\ time = 0
    /\ yielded = <<>>
    /\ before = [mixture |-> <<>>, tracks |-> <<>>]
    /\ error = "none"
    /\ pc = "idle"

\* self.gaussian_mixture.components = ...
SetMixture ==
    /\ pc \in {"idle", "maintained", "ended"}
    /\ steps < Len(TrackRounds)
    /\ mixture' \in TrackMixtures
    /\ before' = [mixture |-> mixture, tracks |-> tracks]
    /\ steps' = steps + 1
    /\ pc' = "set"
    /\ UNCHANGED <<cfg, birth_component, detections, hypotheses, detector, next_tag,
                   minted, tracks, time, yielded, error>>

\* GaussianMixtureMultiTargetTracker.tracks_gen(self)
CallTracksGen ==
    /\ pc = "set"
    /\ tracks' = TracksGen(tracks, mixture)
    /\ pc' = "maintained"
    /\ UNCHANGED <<cfg, birth_component, mixture, detections, hypotheses, detector,
                   next_tag, minted, steps, time, yielded, before, error>>

\* self.end_tracks()
CallEndTracks ==
    /\ pc = "maintained"
    /\ LET result == EndTracks(tracks, mixture)
       IN /\ tracks' = result.tracks
          /\ error' = result.error
          /\ pc' = IF result.error = "none" THEN "ended" ELSE "failed"
    /\ UNCHANGED <<cfg, birth_component, mixture, detections, hypotheses, detector,
                   next_tag, minted, steps, time, yielded, before>>

NextTracks == SetMixture \/ CallTracksGen \/ CallEndTracks

SpecTracks == InitTracks /\ [][NextTracks]_vars

\* ------------------------------------------------- claims on the updater
\* the hypotheses of the detection groups, in the order update walks them
DetectionHypotheses == Flatten(SubSeq(hypotheses, 1, Len(hypotheses) - 1))
MissedHypotheses == hypotheses[Len(hypotheses)]

TagsOf(components) == {components[k].tag : k \in 1..Len(components)}

\* strictly increasing maps of 1..n into 1..m
Increasing(n, m) ==
    {f \in [1..n -> 1..m] : \A a, b \in 1..n : a < b => f[a] < f[b]}

\* C6: update gives every component made from a (prediction, real detection)
\* hypothesis the tag of its prediction, unless that tag is 0: then a new tag
\* that is not 0, not a tag of the mixture, not a tag drawn before and not the
\* tag of any other component of this update.  A component of the missed branch
\* carries the tag of its prediction.
C6_TagsInheritedOrFresh ==
    [][(pc = "update" /\ pc' = "reduce") =>
          LET dh == DetectionHypotheses
              out == mixture'
              missedOut == SubSeq(out, Len(dh) + 1, Len(out))
          IN /\ Len(out) >= Len(dh)
             /\ \A k \in 1..Len(dh) :
                   IF dh[k].prediction.tag # BirthTag
                   THEN out[k].tag = dh[k].prediction.tag
                   ELSE /\ out[k].tag # BirthTag
                        /\ out[k].tag \notin TagsOf(mixture)
                        /\ out[k].tag \notin minted
                        /\ \A l \in 1..Len(dh) : l # k => out[l].tag # out[k].tag
             /\ \E f \in Increasing(Len(missedOut), Len(MissedHypotheses)) :
                   \A k \in 1..Len(missedOut) :
                      /\ missedOut[k].tag = MissedHypotheses[f[k]].prediction.tag
                      /\ missedOut[k].mean = MissedHypotheses[f[k]].prediction.mean
    ]_vars

C6_Witness ==
    /\ pc = "reduce" /\ steps = 1
    /\ LET dh == DetectionHypotheses
       IN /\ \E k, l \in 1..Len(dh) :
                /\ k # l
                /\ dh[k].prediction.tag = BirthTag /\ dh[l].prediction.tag = BirthTag
                /\ mixture[k].tag # mixture[l].tag
          /\ \E k \in 1..Len(dh) :
                dh[k].prediction.tag # BirthTag /\ mixture[k].tag = dh[k].prediction.tag
          /\ \E k \in (Len(dh) + 1)..Len(mixture) : mixture[k].tag # BirthTag

\* the components update emitted for detection group j
EmittedFor(j) ==
    LET earlier == Len(Flatten(SubSeq(hypotheses, 1, j - 1)))
    IN SubSeq(mixture, earlier + 1, earlier + Len(hypotheses[j]))

WeightsOf(components) == [k \in 1..Len(components) |-> components[k].weight]

\* w_i = prob_of_detection * prediction weight * q_i
ClaimedW(h) == RMul(prob_of_detection, RMul(h.prediction.weight, Pdf(h)))
ClaimedWeightSum(group) ==
    RAdd(clutter_spatial_density, RSum([k \in 1..Len(group) |-> ClaimedW(group[k])]))

C8_MissedBranchSkipsBirth ==
    (pc = "reduce") =>
        LET kept == SelectSeq(MissedHypotheses,
                              LAMBDA h : h.prediction.tag # BirthTag)
            expected ==
                [k \in 1..Len(kept) |->
                    Component(kept[k].prediction.tag,
                              RMul(kept[k].prediction.weight,
                                   RSub(One, prob_of_detection)),
                              kept[k].prediction.mean)]
        IN SubSeq(mixture, Len(DetectionHypotheses) + 1, Len(mixture)) = expected

\* ---------------------------------------------- claims on the tracker loop
BirthTagged(components) == {k \in 1..Len(components) : components[k].tag = BirthTag}

\* C9: after any completed tracker step no component of the mixture bears the
\* birth tag 0.
C9_NoBirthTagAfterStep ==
    (pc = "pull" /\ steps > 0) => BirthTagged(mixture) = {}

\* C10: at every point of every run the mixture holds at most one component
\* with tag 0.
C10_AtMostOneBirthTag == Cardinality(BirthTagged(mixture)) <= 1

\* ------------------------------------------- claims on track maintenance
\* the components of the mixture that bear tag t, in order
Bearing(t) == SelectSeq(mixture, LAMBDA c : c.tag = t)

\* the place in Bearing(t) of the first component above the threshold, or 0
FirstAbove(t) ==
    LET above == {k \in 1..Len(Bearing(t)) :
                     RLt(extraction_threshold, Bearing(t)[k].weight)}
    IN IF above = {} THEN 0 ELSE CHOOSE k \in above : \A l \in above : k <= l

\* C11: in the maintenance pass a tag without a track gets a track iff the tag
\* is not 0 and a component bearing it weighs strictly more than the
\* extraction threshold; the track has that tag as id and starts with that
\* component.  A component with tag 0 never creates a track.
C11_TrackSpawn ==
    [][(pc = "set" /\ pc' = "maintained") =>
          \A t \in TagsOf(mixture) :
             ~HasKey(tracks, Str(t)) =>
                IF t # BirthTag /\ FirstAbove(t) > 0
                THEN TrackOf(tracks', Str(t))
                       = {Track(SubSeq(Bearing(t), FirstAbove(t), Len(Bearing(t))),
                                Str(t))}
                ELSE ~HasKey(tracks', Str(t))
    ]_vars

\* the part of C11 the code keeps: the same, for tags other than 0
C11_TrackSpawnOfMintedTags ==
    [][(pc = "set" /\ pc' = "maintained") =>
          \A t \in TagsOf(mixture) \ {BirthTag} :
             ~HasKey(tracks, Str(t)) =>
                IF FirstAbove(t) > 0
                THEN TrackOf(tracks', Str(t))
                       = {Track(SubSeq(Bearing(t), FirstAbove(t), Len(Bearing(t))),
                                Str(t))}
                ELSE ~HasKey(tracks', Str(t))
    ]_vars

\* C12: the maintenance pass appends to every existing track exactly the
\* components of the mixture that bear its tag, in order, and afterwards every
\* state of every track bears the tag the track has as id.
C12_TrackExtend ==
    [][(pc = "set" /\ pc' = "maintained") =>
          /\ Len(tracks') >= Len(tracks)
          /\ \A n \in 1..Len(tracks) :
                /\ tracks'[n].key = tracks[n].key
                /\ tracks'[n].track.id = tracks[n].track.id
                /\ tracks'[n].track.states
                     = tracks[n].track.states
                         \o SelectSeq(mixture, LAMBDA c : Str(c.tag) = tracks[n].key)
          /\ \A n \in 1..Len(tracks') :
                /\ tracks'[n].track.id = tracks'[n].key
                /\ \A k \in 1..Len(tracks'[n].track.states) :
                      Str(tracks'[n].track.states[k].tag) = tracks'[n].track.id
    ]_vars

C12_Witness ==
    /\ pc = "maintained" /\ steps = Len(TrackRounds)
    /\ Len(tracks) >= 2
    /\ \E n \in 1..Len(tracks) : Len(tracks[n].track.states) > Len(mixture)
    /\ \E n \in 1..Len(tracks) : Len(tracks[n].track.states) = 1

\* C13: after end_tracks every track whose tag no component of the mixture
\* carries is not active, every track whose tag some component carries is
\* active, and the pass raised nothing.
C13_TrackEnd ==
    (pc \in {"ended", "failed"}) =>
        /\ error = "none"
        /\ \A n \in 1..Len(tracks) :
              tracks[n].track.active
                 <=> (\E k \in 1..Len(mixture) : Str(mixture[k].tag) = tracks[n].key)

\* C14, the part on tags: a component of the mixture bears tag 0, a tag the
\* mixture bore one step of the loop earlier, or a tag uuid4 has not returned
\* before; so a tag other than 0 that has left the mixture does not come back.
C14_TagsNeverReappear ==
    [][\A t \in TagsOf(mixture') \ {BirthTag} :
          t \in TagsOf(mixture) \/ t \notin minted]_vars

\* ---------------------------------------------- claims on the tracker loop
\* the tracks of the table whose active flag is set
ActiveOf(table) == {table[n].track : n \in {m \in 1..Len(table) : table[m].track.active}}

\* C15: the loop has yielded one tuple for every pair it has pulled and
\* finished with, in order; the tuple of a step holds the pair's time, the
\* active tracks and the sum of the weights of the reduced mixture, and it is
\* yielded after track maintenance: every component above the extraction
\* threshold with a tag other than 0 has its track.
C15_OneTuplePerPair ==
    (pc \in {"pull", "done", "failed"}) =>
        /\ Len(yielded) = time
        /\ \A k \in 1..Len(yielded) : yielded[k].time = k
        /\ (pc = "pull" /\ steps > 0) =>
              LET last == yielded[Len(yielded)]
              IN /\ last.estimated_number_of_targets = EstimatedNumberOfTargets(mixture)
                 /\ last.tracks = ActiveOf(tracks)
                 /\ \A k \in 1..Len(mixture) :
                       (mixture[k].tag # BirthTag
                          /\ RLt(extraction_threshold, mixture[k].weight))
                       => HasKey(tracks, Str(mixture[k].tag))
        /\ (pc = "done") => detector = 0

\* C16: when a step fails, the mixture and the track table are what they were
\* when the step began.
C16_FailedStepLeavesNoTrace ==
    (pc = "failed") => (mixture = before.mixture /\ tracks = before.tracks)

\* C17: in a step without detections the hypothesiser returns the missed
\* group alone, update raises nothing and returns exactly one component for
\* every prediction with a tag other than 0, with the prediction's weight
\* times 1 - prob_of_detection.
C17_EmptyDetectionStep ==
    (pc \in {"reduce", "failed"} /\ detections = <<>>) =>
        /\ Len(hypotheses) = 1
        /\ \A k \in 1..Len(hypotheses[1]) : IsMissedDetection(hypotheses[1][k].measurement)
        /\ error = "none"
        /\ LET kept == SelectSeq(hypotheses[1], LAMBDA h : h.prediction.tag # BirthTag)
           IN mixture = [k \in 1..Len(kept) |->
                            Component(kept[k].prediction.tag,
                                      RMul(kept[k].prediction.weight,
                                           RSub(One, prob_of_detection)),
                                      kept[k].prediction.mean)]

\* C18: after any step every weight of the mixture is a number and is not
\* negative.
C18_WeightsFinite ==
    (pc = "pull" /\ steps > 0) =>
        \A k \in 1..Len(mixture) :
           ~IsNaN(mixture[k].weight) /\ RLe(Zero, mixture[k].weight)

\* C19: at the start of every step the birth template has tag 0 and the
\* configured birth weight.
C19_TemplateUntouched ==
    (pc = "pull") =>
        \E w \in BirthWeights : birth_component = Component(BirthTag, w, 0)

====
